---- MODULE Spec2Model ----
(***************************************************************************)
(* Model of meetup_api_rsvp.py: clock-drift correction, event selection,   *)
(* the wait gate wait_until_minute_range_target_time and the bounded       *)
(* booking attempt loop of main().                                         *)
(*                                                                         *)
(* Time is counted in ticks of 0.1 s (the resolution of margin_seconds).   *)
(* A timestamp is the number of ticks since an epoch that is a Monday      *)
(* 00:00:00 UTC.  Local time is UTC plus a fixed offset tz; daylight       *)
(* saving transitions are not modelled.  Code between two blocking calls   *)
(* (sleep, HTTP request) takes no time.                                    *)
(***************************************************************************)
EXTENDS Integers, Sequences, FiniteSets, TLC

VARIABLES
    pc,             \* position of main()
    clock,          \* time.time(), in ticks
    tz,             \* local time zone offset, in ticks
    DRY_RUN,        \* the DRY_RUN environment flag
    args,           \* the parsed command line
    gate_args,      \* the arguments of wait_until_minute_range_target_time
    remote_events,  \* the event edges the API holds for the group
    drift_seconds,  \* local of main(): the NTP offset, in ticks
    start_time,     \* local of main()
    end_time,       \* local of main()
    events,         \* local of main()
    next_event,     \* local of main()
    attempts,       \* local of main()
    result,         \* local of main(): the last attempt's result
    gate,           \* what the wait gate computed and when it returned
    attempt_at,     \* corrected time at which each attempt started
    results,        \* the result of each attempt that returned one
    rsvp_calls,     \* number of calls of rsvp_event
    retry_sleeps,   \* number of retry sleeps started
    outcome,        \* how the run ended
    error_logged,   \* the except clause of main() ran
    raised,         \* the call that raised the error, "" while none did
    rsvp_http,      \* requests sent and status got by the last rsvp_event
    elapsed_logged  \* the final elapsed-time line was emitted

vars == << pc, clock, tz, DRY_RUN, args, gate_args, remote_events,
           drift_seconds, start_time, end_time, events, next_event, attempts,
           result, gate, attempt_at, results, rsvp_calls, retry_sleeps,
           outcome, error_logged, raised, rsvp_http, elapsed_logged >>

----------------------------------------------------------------------------
(* Units and program constants *)

Second == 10
Minute == 60 * Second
Hour == 60 * Minute
Day == 24 * Hour

MIN_ATTEMPTS == 2
MAX_ATTEMPTS == 3
TIMEOUT_MINUTES == 2

TOO_FEW_SPOTS == "too_few_spots"

\* Retry(total=3, status_forcelist=[500,502,503,504]) of the session
RETRY_TOTAL == 3
status_forcelist == {"500", "502", "503", "504"}

----------------------------------------------------------------------------
(* Bounds of the model *)

\* a blocking sleep lasts the requested duration plus 0..MaxSlack ticks
MaxSlack == 1
\* number of event edges in the lists find_next_event is tried on
MaxEvents == 2

----------------------------------------------------------------------------
(* Optional values: None, or Some(v) *)

None == [set |-> FALSE, val |-> 0]
Some(v) == [set |-> TRUE, val |-> v]

----------------------------------------------------------------------------
(* Clock and calendar *)

\* now_corrected(): t is the reading of time.time()
now_corrected(t, drift) == t + drift

\* time.localtime(ts) in the zone with offset zone: the fields the code reads
localtime(ts, zone) ==
    [ tm_day  |-> (ts + zone) \div Day,
      tm_hour |-> ((ts + zone) \div Hour) % 24,
      tm_min  |-> ((ts + zone) \div Minute) % 60 ]

\* time.mktime((year, mon, mday, hour, min, sec, ...)) in the same zone
mktime(tm_day, hour, min, sec, zone) ==
    tm_day * Day + hour * Hour + min * Minute + sec * Second - zone

\* datetime.weekday() of a UTC instant, Monday = 0
weekday(utc) == (utc \div Day) % 7

----------------------------------------------------------------------------
(* wait_until_minute_range_target_time: the pure part *)

\* variant: the lower bound of the window excluded
in_minute_range_open(start_minute, end_minute, current_min) ==
    start_minute < current_min /\ current_min <= end_minute

in_minute_range(start_minute, end_minute, current_min) ==
    start_minute <= current_min /\ current_min <= end_minute

tgt_min_of(target_minute) == target_minute % 60

\* variant: the following hour only when the minute is past the target
next_hour_of_strict(target_hour, current_hour, current_min, tgt_min) ==
    IF target_hour.set THEN target_hour.val % 24
    ELSE IF current_min > tgt_min THEN (current_hour + 1) % 24
    ELSE current_hour

next_hour_of(target_hour, current_hour, current_min, tgt_min) ==
    IF target_hour.set THEN target_hour.val % 24
    ELSE IF current_min >= tgt_min THEN (current_hour + 1) % 24
    ELSE current_hour

\* variant: the margin taken off instead of added
target_timestamp_early(local, next_hour, tgt_min, margin_seconds, zone) ==
    mktime(local.tm_day, next_hour, tgt_min, 0, zone) - margin_seconds

\* mktime(...) + margin_seconds, on the local day of now_corr
target_timestamp_of(local, next_hour, tgt_min, margin_seconds, zone) ==
    mktime(local.tm_day, next_hour, tgt_min, 0, zone) + margin_seconds

\* variant: a target in the past is never moved
roll_forward_never(target_timestamp, now_corr) == target_timestamp

\* variant: a target equal to now is not moved
roll_forward_strict(target_timestamp, now_corr) ==
    IF target_timestamp < now_corr THEN target_timestamp + 24 * 3600 * Second
    ELSE target_timestamp

\* if target_timestamp <= now_corr: target_timestamp += 24*3600
roll_forward(target_timestamp, now_corr) ==
    IF target_timestamp <= now_corr THEN target_timestamp + 24 * 3600 * Second
    ELSE target_timestamp

\* everything the gate computes from its arguments and the clock reading t
gate_plan(ga, t, drift, zone) ==
    LET now_corr == t + drift
        local == localtime(now_corr, zone)
        tgt_min == tgt_min_of(ga.target_minute)
        next_hour == next_hour_of(ga.target_hour, local.tm_hour, local.tm_min, tgt_min)
        first == target_timestamp_of(local, next_hour, tgt_min, ga.margin_seconds, zone)
        target == roll_forward(first, now_corr)
    IN  [ called     |-> TRUE,
          engaged    |-> in_minute_range(ga.start_minute, ga.end_minute, local.tm_min),
          now_corr   |-> now_corr,
          local      |-> local,
          tgt_min    |-> tgt_min,
          next_hour  |-> next_hour,
          first      |-> first,
          target     |-> target,
          wait_time  |-> target - now_corr,
          returned   |-> now_corr ]

NoGate ==
    [ called |-> FALSE, engaged |-> FALSE, now_corr |-> 0,
      local |-> [tm_day |-> 0, tm_hour |-> 0, tm_min |-> 0],
      tgt_min |-> 0, next_hour |-> 0, first |-> 0, target |-> 0,
      wait_time |-> 0, returned |-> 0 ]

----------------------------------------------------------------------------
(* Strings are sequences of characters *)

lower_char(c) ==
    CASE c = "R" -> "r"
      [] c = "U" -> "u"
      [] c = "N" -> "n"
      [] c = "T" -> "t"
      [] c = "E" -> "e"
      [] OTHER -> c

\* str.lower()
lower(s) == [i \in 1..Len(s) |-> lower_char(s[i])]

\* sub in s
contains(sub, s) ==
    \E i \in 0..(Len(s) - Len(sub)) : SubSeq(s, i + 1, i + Len(sub)) = sub

----------------------------------------------------------------------------
(* Event selection *)

\* A dateTime value is [kind, wall, offset]: kind "offset" is an ISO string
\* with a UTC offset, "Z" one with the suffix Z, "naive" one without offset,
\* "bad" a string that is no ISO date, "notstr" a value that is no string.
parse_iso_datetime(dt_str) ==
    CASE dt_str.kind = "notstr" -> [ok |-> FALSE, error |-> "TypeError", wall |-> 0, offset |-> None]
      [] dt_str.kind = "bad"    -> [ok |-> FALSE, error |-> "ValueError", wall |-> 0, offset |-> None]
      [] dt_str.kind = "Z"      -> [ok |-> TRUE, error |-> "", wall |-> dt_str.wall, offset |-> Some(0)]
      [] dt_str.kind = "naive"  -> [ok |-> TRUE, error |-> "", wall |-> dt_str.wall, offset |-> None]
      [] OTHER                  -> [ok |-> TRUE, error |-> "", wall |-> dt_str.wall, offset |-> Some(dt_str.offset)]

\* datetime.astimezone(timezone.utc): a naive datetime counts as local time
astimezone_utc(dt, zone) ==
    dt.wall - (IF dt.offset.set THEN dt.offset.val ELSE zone)

days_map(name) ==
    CASE name = <<"m","o","n">> -> Some(0)
      [] name = <<"t","u","e">> -> Some(1)
      [] name = <<"w","e","d">> -> Some(2)
      [] name = <<"t","h","u">> -> Some(3)
      [] name = <<"f","r","i">> -> Some(4)
      [] name = <<"s","a","t">> -> Some(5)
      [] name = <<"s","u","n">> -> Some(6)
      [] OTHER -> None

\* variant: an event starting exactly at the floor is left out
event_qualifies_after_floor(node, dt, partial_title, target_day, start_date) ==
    /\ contains(lower(partial_title), lower(node.title))
    /\ weekday(dt) = target_day
    /\ dt > start_date

\* the condition of line 140
event_qualifies(node, dt, partial_title, target_day, start_date) ==
    /\ contains(lower(partial_title), lower(node.title))
    /\ weekday(dt) = target_day
    /\ dt >= start_date

\* variant: an unstable sort that puts x before the entries of equal key
sort_insert_before_equal(x, sorted) ==
    LET before(y) == y.dt < x.dt
        notBefore(y) == y.dt >= x.dt
    IN  SelectSeq(sorted, before) \o <<x>> \o SelectSeq(sorted, notBefore)

\* list.sort(key=lambda x: x[0]) is stable: x goes behind every entry whose
\* key is not greater
sort_insert(x, sorted) ==
    LET notAfter(y) == y.dt <= x.dt
        after(y) == y.dt > x.dt
    IN  SelectSeq(sorted, notAfter) \o <<x>> \o SelectSeq(sorted, after)

RECURSIVE sort_by_dt(_)
sort_by_dt(s) ==
    IF s = <<>> THEN <<>>
    ELSE sort_insert(s[Len(s)], sort_by_dt(SubSeq(s, 1, Len(s) - 1)))

\* the loop of lines 136-141 over evs[1..n]: the list of (dt, node) pairs,
\* or the error of the first event whose date does not parse
RECURSIVE weekday_events(_, _, _, _, _, _)
weekday_events(evs, n, partial_title, target_day, start_date, zone) ==
    IF n = 0 THEN [ok |-> TRUE, list |-> <<>>]
    ELSE LET before == weekday_events(evs, n - 1, partial_title, target_day, start_date, zone)
             node == evs[n].node
             parsed == parse_iso_datetime(node.dateTime)
             dt == astimezone_utc(parsed, zone)
         IN  IF ~before.ok THEN before
             ELSE IF ~parsed.ok THEN [ok |-> FALSE, list |-> <<>>]
             ELSE IF event_qualifies(node, dt, partial_title, target_day, start_date)
                  THEN [ok |-> TRUE, list |-> Append(before.list, [dt |-> dt, node |-> node])]
                  ELSE before

NoNode == [id |-> "", title |-> <<>>, dateTime |-> [kind |-> "bad", wall |-> 0, offset |-> 0]]

\* find_next_event: kind is "raise", "none" or "event"
find_next_event(evs, day_of_week, partial_title, t, drift, min_days_from_now, zone) ==
    LET today == now_corrected(t, drift)
        start_date == today + min_days_from_now * Day
        target_day == days_map(lower(day_of_week))
        found == weekday_events(evs, Len(evs), partial_title, target_day.val, start_date, zone)
    IN  IF ~target_day.set THEN [kind |-> "raise", node |-> NoNode]
        ELSE IF ~found.ok THEN [kind |-> "raise", node |-> NoNode]
        ELSE IF found.list = <<>> THEN [kind |-> "none", node |-> NoNode]
        ELSE [kind |-> "event", node |-> sort_by_dt(found.list)[1].node]

----------------------------------------------------------------------------
(* The booking attempt loop: the pure part *)

\* A result is what resp.json() gave: data is "dict", "null" (JSON null) or
\* "absent"; status is the rsvp status, "None" without rsvp info; errors is
\* the list of error codes, errors_present is FALSE for a null or missing list.
DryRunResult ==
    [data |-> "dict", status |-> "DRY_RUN", errors |-> <<>>, errors_present |-> TRUE]

NoResult ==
    [data |-> "absent", status |-> "None", errors |-> <<>>, errors_present |-> FALSE]

\* result.get("data",{}).get("rsvp",{}) raises when data is null
result_raises(r) == r.data = "null"

\* errors = rsvp_data.get("errors") or []
rsvp_errors(r) ==
    IF r.data = "dict" /\ r.errors_present THEN r.errors ELSE <<>>

\* rsvp_status = rsvp_info.get("status") if rsvp_info else None
rsvp_status(r) == IF r.data = "dict" THEN r.status ELSE "None"

\* variant: any error at all counts as transient
too_few_spots_any_error(errors) == errors # <<>>

\* any(err.get("code")=="too_few_spots" for err in errors)
too_few_spots(errors) ==
    \E i \in 1..Len(errors) : errors[i] = TOO_FEW_SPOTS

\* variants of the while condition: the minimum forgotten, the maximum
\* off by one, the minimum off by one, the deadline forgotten
loop_condition_no_min(n, now, deadline) ==
    now < deadline /\ n < MAX_ATTEMPTS

loop_condition_max_le(n, now, deadline) ==
    n < MIN_ATTEMPTS \/ (now < deadline /\ n <= MAX_ATTEMPTS)

loop_condition_min_le(n, now, deadline) ==
    n <= MIN_ATTEMPTS \/ (now < deadline /\ n < MAX_ATTEMPTS)

loop_condition_no_deadline(n, now, deadline) ==
    n < MIN_ATTEMPTS \/ n < MAX_ATTEMPTS

\* the while condition of line 185
loop_condition(n, now, deadline) ==
    n < MIN_ATTEMPTS \/ (now < deadline /\ n < MAX_ATTEMPTS)

----------------------------------------------------------------------------
(* Inputs *)

TimeZones == {0, 8 * Hour}

\* get_ntp_drift(): the measured offset, 0 when the probe fails
Drifts == {0, 15}

\* duration of an HTTP request
NetDelays == {0, 125 * Second}

\* local wall-clock time at which main() reads start_time
StartHours == {14, 23}
StartMinSec == { <<0, 0, 1>>, <<30, 0, 0>>, <<54, 59, 0>>, <<55, 0, 0>>,
                 <<57, 0, 0>>, <<58, 30, 5>>, <<59, 59, 9>> }
StartWallTimes ==
    { Day + h * Hour + m[1] * Minute + m[2] * Second + m[3] :
        h \in StartHours, m \in StartMinSec }

\* the HTTP status the booking API answers with; "none" is a connection
\* failure
HttpAnswers == {"200", "404", "503", "none"}

\* the JSON body of a 200 answer of the booking API
Responses ==
    { [data |-> "dict", status |-> "YES", errors |-> <<>>, errors_present |-> FALSE],
      [data |-> "dict", status |-> "None", errors |-> <<TOO_FEW_SPOTS>>, errors_present |-> TRUE],
      [data |-> "dict", status |-> "None", errors |-> <<"other_error", TOO_FEW_SPOTS>>, errors_present |-> TRUE],
      [data |-> "dict", status |-> "None", errors |-> <<"other_error">>, errors_present |-> TRUE],
      [data |-> "null", status |-> "None", errors |-> <<>>, errors_present |-> FALSE] }

RunNode ==
    [id |-> "e1", title |-> <<"R","u","n">>,
     dateTime |-> [kind |-> "offset", wall |-> 8 * Day + 18 * Hour, offset |-> 8 * Hour]]
YogaNode ==
    [id |-> "e2", title |-> <<"y","o","g","a">>,
     dateTime |-> [kind |-> "Z", wall |-> 8 * Day + 10 * Hour, offset |-> 0]]
BadNode ==
    [id |-> "e3", title |-> <<"R","u","n">>,
     dateTime |-> [kind |-> "bad", wall |-> 0, offset |-> 0]]

edge(n) == [node |-> n]

MainEventLists == { <<edge(RunNode)>>, <<edge(YogaNode)>>, <<edge(BadNode)>> }

MainArgs ==
    { [day_in_week |-> d, session_name |-> <<"r","U","N">>,
       interval_seconds |-> i, min_days_from_now |-> 0] :
        d \in { <<"T","u","e">> }, i \in {5, 61} }

\* Event selection is tried on lists over these nodes.  The run starts on
\* day 1, a Tuesday, at 14:00 local time; day 8 is the Tuesday after.
node(id, title, dateTime) == [id |-> id, title |-> title, dateTime |-> dateTime]

\* Tuesday 18:00+08:00, that is Tuesday 10:00 UTC
TueEvening == [kind |-> "offset", wall |-> 8 * Day + 18 * Hour, offset |-> 8 * Hour]
\* the same instant written with Z
TueMorningZ == [kind |-> "Z", wall |-> 8 * Day + 10 * Hour, offset |-> 0]
\* Wednesday 02:00+08:00, still Tuesday in UTC
WedNight == [kind |-> "offset", wall |-> 9 * Day + 2 * Hour, offset |-> 8 * Hour]
\* Tuesday 05:00+08:00, still Monday in UTC
TueDawn == [kind |-> "offset", wall |-> 8 * Day + 5 * Hour, offset |-> 8 * Hour]
\* 14:00 UTC of the day of the run
TodayZ == [kind |-> "Z", wall |-> Day + 14 * Hour, offset |-> 0]
\* Tuesday 01:00 two weeks on, without offset
NaiveTue == [kind |-> "naive", wall |-> 15 * Day + Hour, offset |-> 0]
Unparseable == [kind |-> "bad", wall |-> 0, offset |-> 0]

RunTitle == <<"e","R","u","n","t">>
RuTitle == <<"r","u">>

SelectNodes ==
    { node("a1", RunTitle, TueEvening),  node("a2", RunTitle, TueMorningZ),
      node("a3", RunTitle, WedNight),    node("a4", RunTitle, TueDawn),
      node("a5", RunTitle, TodayZ),      node("a6", RunTitle, NaiveTue),
      node("a7", RunTitle, Unparseable),
      node("b1", RuTitle, TueEvening),   node("b3", RuTitle, WedNight),
      node("b5", RuTitle, TodayZ) }

SelectEventLists ==
    UNION { { [i \in 1..n |-> edge(f[i])] : f \in [1..n -> SelectNodes] } :
            n \in 0..MaxEvents }

SelectArgs ==
    { [day_in_week |-> d, session_name |-> <<"r","U","N">>,
       interval_seconds |-> 5, min_days_from_now |-> m] :
        d \in { <<"T","u","e">>, <<"x","y","z">> }, m \in {0, 7} }

\* the call of line 182
MainGateArgs ==
    [start_minute |-> 55, end_minute |-> 59, target_hour |-> None,
     target_minute |-> 0, margin_seconds |-> 1]

GateArgs ==
    { [start_minute |-> w[1], end_minute |-> w[2], target_hour |-> th,
       target_minute |-> tm, margin_seconds |-> mg] :
        w \in { <<55, 59>>, <<0, 59>> },
        th \in { None, Some(38) },
        tm \in { 0, 57, 59 },
        mg \in { 0, 1 } }

----------------------------------------------------------------------------
(* main() *)

InitLocals ==
    /\ pc = "start"
    /\ drift_seconds = 0
    /\ start_time = 0
    /\ end_time = 0
    /\ events = <<>>
    /\ next_event = NoNode
    /\ attempts = 0
    /\ result = NoResult
    /\ gate = NoGate
    /\ attempt_at = <<>>
    /\ results = <<>>
    /\ rsvp_calls = 0
    /\ retry_sleeps = 0
    /\ outcome = "RUNNING"
    /\ error_logged = FALSE
    /\ raised = ""
    /\ rsvp_http = [requests |-> 0, status |-> "none"]
    /\ elapsed_logged = FALSE

Init ==
    /\ tz \in TimeZones
    /\ clock \in { w - tz : w \in StartWallTimes }
    /\ DRY_RUN \in BOOLEAN
    /\ args \in MainArgs
    /\ gate_args = MainGateArgs
    /\ remote_events \in MainEventLists
    /\ InitLocals

\* the wait gate with arguments other than those of line 182
GateInit ==
    /\ tz \in TimeZones
    /\ clock \in { w - tz : w \in StartWallTimes }
    /\ DRY_RUN = FALSE
    /\ args \in { a \in MainArgs : a.interval_seconds = 5 }
    /\ gate_args \in GateArgs
    /\ remote_events = <<edge(RunNode)>>
    /\ InitLocals

\* find_next_event on lists of up to MaxEvents events; the booking call is
\* made for the one-event list only
SelectInit ==
    /\ tz \in TimeZones
    /\ clock = Day + 14 * Hour - tz
    /\ DRY_RUN \in BOOLEAN
    /\ args \in SelectArgs
    /\ gate_args = MainGateArgs
    /\ remote_events \in (IF DRY_RUN THEN SelectEventLists ELSE { <<edge(RunNode)>> })
    /\ InitLocals

Inputs == << tz, DRY_RUN, args, gate_args, remote_events >>
History == << attempt_at, results, rsvp_calls, retry_sleeps, rsvp_http >>

\* lines 160-163
Start ==
    /\ pc = "start"
    /\ \E d \in Drifts :
        /\ drift_seconds' = d
        /\ start_time' = now_corrected(clock, d)
        /\ end_time' = now_corrected(clock, d) + TIMEOUT_MINUTES * Minute
    /\ pc' = "fetch"
    /\ UNCHANGED << clock, Inputs, History, events, next_event, attempts, result,
                    gate, outcome, error_logged, raised, elapsed_logged >>

\* line 175: get_group_events returns the edges or raises
GetGroupEvents ==
    /\ pc = "fetch"
    /\ \E d \in NetDelays : clock' = clock + d
    /\ \/ events' = remote_events /\ pc' = "select" /\ raised' = raised
       \/ events' = events /\ pc' = "except" /\ raised' = "get_group_events"
    /\ UNCHANGED << Inputs, History, drift_seconds, start_time, end_time,
                    next_event, attempts, result, gate, outcome, error_logged,
                    elapsed_logged >>

\* variant: the return of line 179 missing, so that line 181 subscripts None
FindNextEventWithoutReturn ==
    /\ pc = "select"
    /\ LET found == find_next_event(events, args.day_in_week, args.session_name,
                                    clock, drift_seconds, args.min_days_from_now, tz)
       IN  IF found.kind = "event"
           THEN /\ pc' = "gate"
                /\ next_event' = found.node
                /\ UNCHANGED << outcome, raised >>
           ELSE /\ pc' = "except"
                /\ raised' = (IF found.kind = "none" THEN "main" ELSE "find_next_event")
                /\ UNCHANGED << next_event, outcome >>
    /\ UNCHANGED << clock, Inputs, History, drift_seconds, start_time, end_time,
                    events, attempts, result, gate, error_logged, elapsed_logged >>

\* lines 176-181
FindNextEvent ==
    /\ pc = "select"
    /\ LET found == find_next_event(events, args.day_in_week, args.session_name,
                                    clock, drift_seconds, args.min_days_from_now, tz)
       IN  CASE found.kind = "raise" ->
                  /\ pc' = "except"
                  /\ raised' = "find_next_event"
                  /\ UNCHANGED << next_event, outcome >>
             [] found.kind = "none" ->
                  /\ pc' = "done"
                  /\ outcome' = "NO_EVENT"
                  /\ UNCHANGED << next_event, raised >>
             [] OTHER ->
                  /\ pc' = "gate"
                  /\ next_event' = found.node
                  /\ UNCHANGED << outcome, raised >>
    /\ UNCHANGED << clock, Inputs, History, drift_seconds, start_time, end_time,
                    events, attempts, result, gate, error_logged, elapsed_logged >>

\* variant: the deadline is taken anew when the gate returns
WaitGateMovingDeadline ==
    /\ pc = "gate"
    /\ LET plan == gate_plan(gate_args, clock, drift_seconds, tz)
       IN  IF ~plan.engaged
           THEN /\ gate' = plan
                /\ clock' = clock
                /\ pc' = "loop"
                /\ UNCHANGED << raised, end_time >>
           ELSE IF plan.wait_time < 0
           THEN /\ gate' = plan
                /\ clock' = clock
                /\ pc' = "except"
                /\ raised' = "sleep"
                /\ UNCHANGED end_time
           ELSE \E slack \in 0..MaxSlack :
                /\ clock' = clock + plan.wait_time + slack
                /\ gate' = [plan EXCEPT !.returned = now_corrected(clock', drift_seconds)]
                /\ end_time' = now_corrected(clock', drift_seconds) + TIMEOUT_MINUTES * Minute
                /\ pc' = "loop"
                /\ raised' = raised
    /\ UNCHANGED << Inputs, History, drift_seconds, start_time, events,
                    next_event, attempts, result, outcome, error_logged,
                    elapsed_logged >>

\* line 182: wait_until_minute_range_target_time; time.sleep raises on a
\* negative duration and otherwise lasts at least the duration
WaitGate ==
    /\ pc = "gate"
    /\ LET plan == gate_plan(gate_args, clock, drift_seconds, tz)
       IN  IF ~plan.engaged
           THEN /\ gate' = plan
                /\ clock' = clock
                /\ pc' = "loop"
                /\ raised' = raised
           ELSE IF plan.wait_time < 0
           THEN /\ gate' = plan
                /\ clock' = clock
                /\ pc' = "except"
                /\ raised' = "sleep"
           ELSE \E slack \in 0..MaxSlack :
                /\ clock' = clock + plan.wait_time + slack
                /\ gate' = [plan EXCEPT !.returned = now_corrected(clock', drift_seconds)]
                /\ pc' = "loop"
                /\ raised' = raised
    /\ UNCHANGED << Inputs, History, drift_seconds, start_time, end_time, events,
                    next_event, attempts, result, outcome, error_logged,
                    elapsed_logged >>

\* lines 184-187 and 205-206: the while condition; the else clause when it
\* is false
LoopCheck ==
    /\ pc = "loop"
    /\ IF loop_condition(attempts, now_corrected(clock, drift_seconds), end_time)
       THEN /\ attempts' = attempts + 1
            /\ attempt_at' = Append(attempt_at, now_corrected(clock, drift_seconds))
            /\ pc' = "attempt"
            /\ UNCHANGED outcome
       ELSE /\ outcome' = "EXHAUSTED"
            /\ pc' = "finish"
            /\ UNCHANGED << attempts, attempt_at >>
    /\ UNCHANGED << clock, Inputs, results, rsvp_calls, retry_sleeps, rsvp_http,
                    drift_seconds, start_time, end_time, events, next_event,
                    result, gate, error_logged, raised, elapsed_logged >>

\* variant: the first transient rejection is reported as the failure
InspectFailingAtOnce(r) ==
    /\ result' = r
    /\ IF result_raises(r)
       THEN /\ pc' = "except"
            /\ raised' = "result"
            /\ UNCHANGED << results, outcome >>
       ELSE /\ results' = Append(results, r)
            /\ raised' = raised
            /\ pc' = "finish"
            /\ outcome' = (IF too_few_spots(rsvp_errors(r)) THEN "EXHAUSTED" ELSE "SUCCEEDED")

\* lines 193-204, once result is bound
Inspect(r) ==
    /\ result' = r
    /\ IF result_raises(r)
       THEN /\ pc' = "except"
            /\ raised' = "result"
            /\ UNCHANGED << results, outcome >>
       ELSE /\ results' = Append(results, r)
            /\ raised' = raised
            /\ IF too_few_spots(rsvp_errors(r))
               THEN pc' = "retry_sleep" /\ UNCHANGED outcome
               ELSE pc' = "finish" /\ outcome' = "SUCCEEDED"

\* lines 189-190: the synthetic result, no request
DryAttempt ==
    /\ Inspect(DryRunResult)
    /\ UNCHANGED << clock, rsvp_calls, rsvp_http >>

\* lines 147-154: rsvp_event sends one request with requests.post, which
\* does not go through the session the Retry adapter is mounted on; any
\* status but 2xx, or a connection failure, raises
rsvp_event(st) ==
    [ raises |-> st # "200",
      http   |-> [requests |-> 1, status |-> st] ]

\* variant: an error of the booking call is retried like a transient rejection
RealAttemptRetryingErrors ==
    /\ rsvp_calls' = rsvp_calls + 1
    /\ \E d \in NetDelays, st \in HttpAnswers :
        LET call == rsvp_event(st)
        IN  /\ clock' = clock + d
            /\ rsvp_http' = call.http
            /\ IF call.raises
               THEN /\ pc' = "retry_sleep"
                    /\ UNCHANGED << result, results, outcome, raised >>
               ELSE \E r \in Responses : Inspect(r)

\* line 192
RealAttempt ==
    /\ rsvp_calls' = rsvp_calls + 1
    /\ \E d \in NetDelays, st \in HttpAnswers :
        LET call == rsvp_event(st)
        IN  /\ clock' = clock + d
            /\ rsvp_http' = call.http
            /\ IF call.raises
               THEN /\ pc' = "except"
                    /\ raised' = "rsvp_event"
                    /\ UNCHANGED << result, results, outcome >>
               ELSE \E r \in Responses : Inspect(r)

\* variant: the DRY_RUN flag ignored
AttemptIgnoringDryRun ==
    /\ pc = "attempt"
    /\ RealAttempt
    /\ UNCHANGED << Inputs, retry_sleeps, attempt_at, drift_seconds, start_time,
                    end_time, events, next_event, attempts, gate, error_logged,
                    elapsed_logged >>

\* lines 188-204: one attempt, up to the retry sleep or the break
Attempt ==
    /\ pc = "attempt"
    /\ IF DRY_RUN THEN DryAttempt ELSE RealAttempt
    /\ UNCHANGED << Inputs, retry_sleeps, attempt_at, drift_seconds, start_time,
                    end_time, events, next_event, attempts, gate, error_logged,
                    elapsed_logged >>

\* line 201: time.sleep(args.interval_seconds)
RetrySleep ==
    /\ pc = "retry_sleep"
    /\ retry_sleeps' = retry_sleeps + 1
    /\ IF args.interval_seconds < 0
       THEN clock' = clock /\ pc' = "except" /\ raised' = "sleep"
       ELSE \E slack \in 0..MaxSlack :
            /\ clock' = clock + args.interval_seconds * Second + slack
            /\ pc' = "loop"
            /\ raised' = raised
    /\ UNCHANGED << Inputs, attempt_at, results, rsvp_calls, rsvp_http, drift_seconds,
                    start_time, end_time, events, next_event, attempts, result,
                    gate, outcome, error_logged, elapsed_logged >>

\* variant: the handler catches the errors of the selection only, any
\* other error ends the process
ExceptValueErrorOnly ==
    /\ pc = "except"
    /\ IF raised = "find_next_event"
       THEN error_logged' = TRUE /\ outcome' = "ERROR" /\ pc' = "finish"
       ELSE error_logged' = FALSE /\ outcome' = "CRASHED" /\ pc' = "done"
    /\ UNCHANGED << clock, Inputs, History, drift_seconds, start_time, end_time,
                    events, next_event, attempts, result, gate, raised,
                    elapsed_logged >>

\* lines 208-209
Except ==
    /\ pc = "except"
    /\ error_logged' = TRUE
    /\ outcome' = "ERROR"
    /\ pc' = "finish"
    /\ UNCHANGED << clock, Inputs, History, drift_seconds, start_time, end_time,
                    events, next_event, attempts, result, gate, raised,
                    elapsed_logged >>

\* lines 211-212
Finish ==
    /\ pc = "finish"
    /\ elapsed_logged' = TRUE
    /\ pc' = "done"
    /\ UNCHANGED << clock, Inputs, History, drift_seconds, start_time, end_time,
                    events, next_event, attempts, result, gate, outcome,
                    error_logged, raised >>

Next ==
    \/ Start
    \/ GetGroupEvents
    \/ FindNextEvent
    \/ WaitGate
    \/ LoopCheck
    \/ Attempt
    \/ RetrySleep
    \/ Except
    \/ Finish

Spec == Init /\ [][Next]_vars

GateSpec == GateInit /\ [][Next]_vars

SelectSpec == SelectInit /\ [][Next]_vars

TypeOK ==
    /\ pc \in {"start", "fetch", "select", "gate", "loop", "attempt",
               "retry_sleep", "except", "finish", "done"}
    /\ attempts \in Nat
    /\ Len(attempt_at) = attempts
    /\ Len(results) <= attempts

----------------------------------------------------------------------------
(* Properties of the booking attempt loop, checked under Spec *)

\* the result carries an error whose code is the transient code
CarriesTransient(r) ==
    /\ r.data = "dict"
    /\ r.errors_present
    /\ \E i \in DOMAIN r.errors : r.errors[i] = "too_few_spots"

AllTransient == \A k \in DOMAIN results : CarriesTransient(results[k])

\* the loop ended by its break or by its condition
LoopEnded == outcome \in {"SUCCEEDED", "EXHAUSTED"}

DeadlinePassedAtFirstAttempt ==
    Len(attempt_at) >= 1 /\ attempt_at[1] >= end_time

\* C1 as stated: whenever the loop has stopped, whatever the attempt results
\* were, at least MIN_ATTEMPTS attempts have been made.
C1_Original == LoopEnded => attempts >= MIN_ATTEMPTS

\* C1 amended: the loop condition never ends the loop before MIN_ATTEMPTS
\* attempts, also when the deadline passed before the first attempt; a loop
\* that ended after fewer attempts ended by the break on a result without
\* the transient code.
C1_MinAttempts ==
    /\ outcome = "EXHAUSTED" => attempts >= MIN_ATTEMPTS
    /\ (outcome = "SUCCEEDED" /\ attempts < MIN_ATTEMPTS) =>
            /\ Len(results) = attempts
            /\ ~CarriesTransient(results[attempts])

C1_Witness ==
    /\ outcome = "EXHAUSTED"
    /\ DeadlinePassedAtFirstAttempt
    /\ attempts = MIN_ATTEMPTS

\* C2: the attempts counter never exceeds MAX_ATTEMPTS.
C2_MaxAttempts == attempts <= MAX_ATTEMPTS

\* the budget ran out by count while time remained
C2_Witness ==
    /\ outcome = "EXHAUSTED"
    /\ attempts = MAX_ATTEMPTS
    /\ now_corrected(clock, drift_seconds) < end_time

\* C3: an attempt whose result carries no transient code is the last one: no
\* retry sleep and no further attempt follows it, and the run leaves the
\* loop, also when it is the first attempt.
C3_StopsOnNonTransient ==
    \A k \in DOMAIN results :
        ~CarriesTransient(results[k]) =>
            /\ attempts = k
            /\ retry_sleeps = k - 1
            /\ pc \in {"finish", "done"}
            /\ outcome = "SUCCEEDED"

C3_Witness ==
    /\ pc = "done"
    /\ attempts = 1
    /\ attempts < MIN_ATTEMPTS
    /\ Len(results) = 1
    /\ results[1].errors = <<"other_error">>
    /\ retry_sleeps = 0

\* the run is over, the deadline had passed before the first attempt and
\* every attempt returned the transient code
C4_Scenario ==
    /\ pc = "done"
    /\ outcome # "ERROR"
    /\ DeadlinePassedAtFirstAttempt
    /\ Len(results) = attempts
    /\ AllTransient

\* C4 as stated: in the scenario the loop makes exactly 3 attempts and ends
\* EXHAUSTED.
C4_Original == C4_Scenario => (attempts = 3 /\ outcome = "EXHAUSTED")

\* C4 amended: in the scenario the loop makes exactly 2 attempts, the
\* minimum, and ends EXHAUSTED.
C4_TwoAttempts == C4_Scenario => (attempts = 2 /\ outcome = "EXHAUSTED")

C4_Witness == C4_Scenario /\ attempts = 2 /\ outcome = "EXHAUSTED"

\* C5: every attempt numbered above MIN_ATTEMPTS started at a corrected time
\* strictly before the deadline, and attempts start at non-decreasing times.
C5_NoAttemptPastDeadline ==
    /\ \A k \in DOMAIN attempt_at : k > MIN_ATTEMPTS => attempt_at[k] < end_time
    /\ \A j, k \in DOMAIN attempt_at : j <= k => attempt_at[j] <= attempt_at[k]
    /\ (pc = "attempt" /\ attempts > MIN_ATTEMPTS) =>
            now_corrected(clock, drift_seconds) < end_time

\* an attempt above the minimum was made, later than the first one
C5_Witness ==
    /\ Len(attempt_at) > MIN_ATTEMPTS
    /\ attempt_at[Len(attempt_at)] > attempt_at[1]

\* C6: with DRY_RUN set rsvp_event is never called and every attempt yields
\* the synthetic result, status "DRY_RUN" and no errors.
C6_DryRun ==
    DRY_RUN =>
        /\ rsvp_calls = 0
        /\ Len(results) = (IF pc = "attempt" THEN attempts - 1 ELSE attempts)
        /\ \A k \in DOMAIN results :
            /\ results[k].data = "dict"
            /\ results[k].status = "DRY_RUN"
            /\ results[k].errors = <<>>

C6_Witness ==
    /\ DRY_RUN
    /\ pc = "done"
    /\ attempts >= 1
    /\ Len(results) = attempts
    /\ rsvp_calls = 0

----------------------------------------------------------------------------
(* Properties of the wait gate, checked under GateSpec *)

\* minute of the hour of the corrected local time, read off the clock
CorrectedMinute == ((clock + drift_seconds + tz) \div Minute) % 60

\* next_hour:tgt_min:00 on the local day on which the gate was entered
SameDayBoundary ==
    gate.local.tm_day * Day + gate.next_hour * Hour + gate.tgt_min * Minute - tz

\* C7: when the gate engages, control returns, and the first attempt starts,
\* not before the boundary hh:mm:00 that the gate's target stands for, where
\* mm is target_minute and hh is target_hour when that is set.
C7_NotEarly ==
    gate.engaged =>
        \E d \in {0, 1} :
            LET boundary == SameDayBoundary + d * Day
            IN  /\ gate.target = boundary + gate_args.margin_seconds
                /\ localtime(boundary, tz).tm_min = gate_args.target_minute % 60
                /\ boundary % Minute = 0
                /\ gate_args.target_hour.set =>
                       localtime(boundary, tz).tm_hour = gate_args.target_hour.val % 24
                /\ pc # "gate" => gate.returned >= boundary
                /\ attempts >= 1 => attempt_at[1] >= boundary

C7_Witness ==
    /\ gate.engaged
    /\ gate_args.margin_seconds > 0
    /\ attempts >= 1
    /\ attempt_at[1] = gate.target
    /\ gate.returned > gate.now_corr

\* the gate's step: outside the window it changes neither the clock nor
\* anything but the position; on either bound of the window it sleeps
C8_GateStep ==
    pc = "gate" =>
        /\ (CorrectedMinute < gate_args.start_minute \/ CorrectedMinute > gate_args.end_minute) =>
               /\ clock' = clock
               /\ pc' = "loop"
               /\ ~gate'.engaged
        /\ (CorrectedMinute = gate_args.start_minute \/ CorrectedMinute = gate_args.end_minute) =>
               /\ gate'.engaged
               /\ clock' > clock

\* after a gate that did not engage the first attempt starts at once
C8_LoopStep ==
    (pc = "loop" /\ attempts = 0 /\ ~gate.engaged) =>
        /\ clock' = clock
        /\ pc' = "attempt"
        /\ attempt_at' = << clock + drift_seconds >>
        /\ gate.returned = clock + drift_seconds
        /\ gate.now_corr = clock + drift_seconds

\* C8: the gate is a no-op whenever the corrected minute is outside
\* [start_minute, end_minute], the attempt loop then starts at the same
\* instant, and on a minute equal to either bound the gate engages.
C8_NoOpOutsideWindow == [][C8_GateStep /\ C8_LoopStep]_vars

C8_Witness ==
    /\ gate.called
    /\ ~gate.engaged
    /\ gate.local.tm_min = gate_args.start_minute - 1
    /\ attempts >= 1
    /\ attempt_at[1] = gate.now_corr

\* C9: inside the window the wait is never negative, is positive when the
\* margin is, and a target first computed at or before corrected-now is
\* moved by exactly 24 hours, any other target not at all.
C9_WaitPositive ==
    gate.engaged =>
        /\ gate.wait_time >= 0
        /\ gate_args.margin_seconds > 0 => gate.wait_time > 0
        /\ gate.wait_time = gate.target - gate.now_corr
        /\ gate.first <= gate.now_corr => gate.target = gate.first + 24 * 3600 * Second
        /\ gate.first > gate.now_corr => gate.target = gate.first
        /\ pc # "gate" => gate.returned - gate.now_corr >= gate.wait_time

\* the target first computed is exactly now
C9_Witness ==
    /\ gate.engaged
    /\ gate_args.margin_seconds > 0
    /\ gate.first = gate.now_corr
    /\ gate.wait_time = 24 * 3600 * Second

\* C10: with target_hour unset the target is target_minute past the following
\* hour when the current minute is >= target_minute and target_minute past
\* the current hour otherwise, and the wait is the time to it plus the margin.
C10_NextOccurrence ==
    (gate.engaged /\ ~gate_args.target_hour.set) =>
        LET now == gate.now_corr
            hour_start == now - ((now + tz) % Hour)
            minute == ((now + tz) \div Minute) % 60
            boundary ==
                IF minute >= gate_args.target_minute
                THEN hour_start + Hour + gate_args.target_minute * Minute
                ELSE hour_start + gate_args.target_minute * Minute
        IN  /\ gate.target = boundary + gate_args.margin_seconds
            /\ gate.wait_time = (boundary - now) + gate_args.margin_seconds

\* 14:57, window [55,59], target_minute 0: the target is 15:00 local
C10_Witness ==
    /\ gate.engaged
    /\ ~gate_args.target_hour.set
    /\ gate_args.start_minute = 55
    /\ gate_args.end_minute = 59
    /\ gate_args.target_minute = 0
    /\ gate.local.tm_hour = 14
    /\ gate.local.tm_min = 57
    /\ gate.target - gate_args.margin_seconds + tz = gate.local.tm_day * Day + 15 * Hour

----------------------------------------------------------------------------
(* Properties of event selection, checked under SelectSpec *)

\* the date string of the node is an ISO date
DateParses(n) == n.dateTime.kind \in {"offset", "Z", "naive"}

\* the start time of the node as a UTC instant
StartUtc(n) ==
    CASE n.dateTime.kind = "Z" -> n.dateTime.wall
      [] n.dateTime.kind = "offset" -> n.dateTime.wall - n.dateTime.offset
      [] OTHER -> n.dateTime.wall - tz

\* the title contains partial_title, whatever the case of the letters
TitleContains(n, partial_title) ==
    \E i \in 0..(Len(n.title) - Len(partial_title)) :
        \A j \in 1..Len(partial_title) :
            lower_char(n.title[i + j]) = lower_char(partial_title[j])

WeekdayNames ==
    << <<"m","o","n">>, <<"t","u","e">>, <<"w","e","d">>, <<"t","h","u">>,
       <<"f","r","i">>, <<"s","a","t">>, <<"s","u","n">> >>

WeekdayValid == \E d \in 1..7 : WeekdayNames[d] = lower(args.day_in_week)

\* the title, weekday and floor conditions, now being corrected-now
Qualifies(n, now) ==
    /\ DateParses(n)
    /\ TitleContains(n, args.session_name)
    /\ \E d \in 1..7 :
        /\ WeekdayNames[d] = lower(args.day_in_week)
        /\ (StartUtc(n) \div Day) % 7 = d - 1
    /\ StartUtc(n) >= now + args.min_days_from_now * Day

C11_SelectStep ==
    pc = "select" =>
        LET now == clock + drift_seconds
        IN  /\ pc' = "gate" =>
                /\ \E i \in DOMAIN events : events[i].node = next_event'
                /\ Qualifies(next_event', now)
            /\ pc' = "done" =>
                /\ outcome' = "NO_EVENT"
                /\ \A i \in DOMAIN events : ~Qualifies(events[i].node, now)

\* C11: find_next_event returns only an event of the list whose title
\* contains partial_title case-insensitively, whose UTC start falls on the
\* target weekday and is not before corrected-now + min_days_from_now days;
\* it returns None only when no event of the list is such an event.
C11_ReturnsQualifying == [][C11_SelectStep]_vars

\* the second event is returned, the first has the title but not the rest
C11_Witness ==
    /\ pc = "gate"
    /\ Len(events) = 2
    /\ next_event = events[2].node
    /\ TitleContains(events[1].node, args.session_name)
    /\ ~Qualifies(events[1].node, clock + drift_seconds)
    /\ Qualifies(events[2].node, clock + drift_seconds)

C12_SelectStep ==
    (pc = "select" /\ pc' = "gate") =>
        LET now == clock + drift_seconds
        IN  \E i \in DOMAIN events :
                /\ events[i].node = next_event'
                /\ Qualifies(events[i].node, now)
                /\ \A j \in DOMAIN events :
                       Qualifies(events[j].node, now) =>
                           \/ StartUtc(events[i].node) < StartUtc(events[j].node)
                           \/ /\ StartUtc(events[i].node) = StartUtc(events[j].node)
                              /\ i <= j

\* C12: the event returned has the least start time among the qualifying
\* events, and is the first in list order of those that have it.
C12_EarliestFirst == [][C12_SelectStep]_vars

\* two different qualifying events start at the same instant
C12_Witness ==
    /\ pc = "gate"
    /\ Len(events) = 2
    /\ events[1].node # events[2].node
    /\ Qualifies(events[1].node, clock + drift_seconds)
    /\ Qualifies(events[2].node, clock + drift_seconds)
    /\ StartUtc(events[1].node) = StartUtc(events[2].node)
    /\ next_event = events[1].node

C13_SelectStep ==
    ( /\ pc = "select"
      /\ WeekdayValid
      /\ \A i \in DOMAIN events : DateParses(events[i].node)
      /\ \A i \in DOMAIN events : ~Qualifies(events[i].node, clock + drift_seconds) ) =>
        /\ pc' = "done"
        /\ outcome' = "NO_EVENT"
        /\ ~gate'.called
        /\ attempts' = 0
        /\ rsvp_calls' = 0
        /\ retry_sleeps' = 0
        /\ ~error_logged'
        /\ raised' = ""

\* C13: when no event is selected the run ends there: no step follows, the
\* gate was not entered, no attempt and no booking call was made and no
\* error was reported.
C13_NoEventEndsRun == [][C13_SelectStep /\ pc # "done"]_vars

C13_Witness ==
    /\ pc = "done"
    /\ outcome = "NO_EVENT"
    /\ Len(events) >= 1
    /\ ~gate.called
    /\ attempts = 0
    /\ rsvp_calls = 0
    /\ ~error_logged

----------------------------------------------------------------------------
(* Properties of the error handling and of the end of the run *)

RunFrozen ==
    /\ attempts' = attempts
    /\ rsvp_calls' = rsvp_calls
    /\ retry_sleeps' = retry_sleeps
    /\ attempt_at' = attempt_at
    /\ clock' = clock

C14_Step ==
    /\ (pc = "select" /\ ~WeekdayValid) => (pc' = "except" /\ raised' # "")
    /\ (pc = "select" /\ WeekdayValid
          /\ \E i \in DOMAIN events : ~DateParses(events[i].node)) =>
            (pc' = "except" /\ raised' # "")
    /\ raised' # raised => (raised = "" /\ pc' = "except")
    /\ pc' = "except" => raised' # raised
    /\ pc = "except" => (pc' = "finish" /\ error_logged' /\ RunFrozen)
    /\ (pc = "finish" /\ error_logged) => (pc' = "done" /\ RunFrozen)
    /\ pc # "done"

\* C14: every error raised by the fetch, the selection, the gate or the
\* booking call takes main() to its except clause; from there the run only
\* logs and ends: no attempt, booking call or sleep follows, and the run
\* reaches its normal end.  Checked under SelectSpec.
C14_ErrorsCaught == [][C14_Step]_vars

\* an invalid weekday name was rejected and the run ended normally
C14_Witness ==
    /\ pc = "done"
    /\ ~WeekdayValid
    /\ raised = "find_next_event"
    /\ error_logged
    /\ attempts = 0
    /\ rsvp_calls = 0

\* C15: whichever way the run ends, the final elapsed time has been emitted.
\* Checked under Spec.
C15_ElapsedAlways == pc = "done" => elapsed_logged

\* the loop condition of line 185 as the budget rule
BudgetAllowsAttempt ==
    \/ attempts < MIN_ATTEMPTS
    \/ (clock + drift_seconds < end_time /\ attempts < MAX_ATTEMPTS)

\* C16: the run ends EXHAUSTED exactly when every attempt made returned the
\* transient code; it is not reported while the budget allows another
\* attempt, and never after a result without the transient code.  Checked
\* under Spec.
C16_ExhaustedIff ==
    /\ outcome = "EXHAUSTED" =>
            /\ attempts >= 1
            /\ Len(results) = attempts
            /\ AllTransient
            /\ ~BudgetAllowsAttempt
            /\ ~error_logged
    /\ (pc \in {"finish", "done"} /\ attempts >= 1 /\ Len(results) = attempts /\ AllTransient) =>
            outcome = "EXHAUSTED"
    /\ (results # <<>> /\ ~CarriesTransient(results[Len(results)])) =>
            outcome # "EXHAUSTED"

C16_Witness ==
    /\ pc = "done"
    /\ outcome = "EXHAUSTED"
    /\ attempts = MAX_ATTEMPTS
    /\ Len(results) = attempts
    /\ AllTransient

\* C17: a booking call that gets a status other than 2xx, or no answer,
\* raises, and the attempt it was made in is the last: no retry sleep and no
\* attempt follows, and EXHAUSTED is not reported, also on the first attempt.
\* Checked under Spec.
C17_TransportErrorFatal ==
    /\ (rsvp_http.requests > 0 /\ rsvp_http.status # "200") => raised = "rsvp_event"
    /\ raised = "rsvp_event" =>
            /\ pc \in {"except", "finish", "done"}
            /\ rsvp_http.status # "200"
            /\ attempts >= 1
            /\ rsvp_calls = attempts
            /\ Len(results) = attempts - 1
            /\ retry_sleeps = attempts - 1
            /\ outcome \in {"RUNNING", "ERROR"}

C17_Witness ==
    /\ pc = "done"
    /\ raised = "rsvp_event"
    /\ rsvp_http.status = "503"
    /\ attempts = 1
    /\ attempts < MIN_ATTEMPTS
    /\ outcome = "ERROR"

\* C18: a booking call that raises on a server-error status has sent its
\* request once and again for each of the RETRY_TOTAL retries.  Checked
\* under Spec.
C18_BookingRetried ==
    (raised = "rsvp_event" /\ rsvp_http.status \in status_forcelist) =>
        rsvp_http.requests = 1 + RETRY_TOTAL

\* the gate slept for at least the timeout
GateSleptTimeout ==
    /\ gate.engaged
    /\ gate.returned - gate.now_corr >= 2 * Minute

\* C19: end_time stays start_time + TIMEOUT_MINUTES; a gate engaged at minute
\* 55, 56 or 57 sleeps at least that long; and after such a sleep the first
\* attempt starts past the deadline and at most MIN_ATTEMPTS attempts, fewer
\* than MAX_ATTEMPTS, are made.  Checked under Spec.
C19_DeadlineFixed ==
    /\ pc # "start" => end_time = start_time + 2 * Minute
    /\ (gate.engaged /\ gate.local.tm_min \in 55..57 /\ pc \notin {"gate", "except"}) =>
            GateSleptTimeout
    /\ GateSleptTimeout =>
            /\ attempts >= 1 => attempt_at[1] >= end_time
            /\ attempts <= MIN_ATTEMPTS
            /\ attempts < MAX_ATTEMPTS

C19_Witness ==
    /\ pc = "done"
    /\ GateSleptTimeout
    /\ gate.local.tm_min = 57
    /\ outcome = "EXHAUSTED"
    /\ attempts = MIN_ATTEMPTS
    /\ Len(results) = attempts
    /\ AllTransient

\* C20: with the arguments of line 182 an engaged gate sleeps more than the
\* margin and at most 300 s plus the margin; at hour 23 the target is first
\* 00:00 of the current day and is moved by 24 hours; with target_hour unset
\* the sleep is at most 3600 s plus the margin.  Checked under GateSpec.
C20_SleepBounded ==
    /\ (gate.engaged /\ gate_args = MainGateArgs) =>
            /\ gate.wait_time > gate_args.margin_seconds
            /\ gate.wait_time <= 300 * Second + gate_args.margin_seconds
            /\ gate.local.tm_hour = 23 =>
                   /\ gate.first = gate.local.tm_day * Day - tz + gate_args.margin_seconds
                   /\ gate.first <= gate.now_corr
                   /\ gate.target = gate.first + 24 * 3600 * Second
    /\ (gate.engaged /\ ~gate_args.target_hour.set) =>
            /\ gate.wait_time > 0
            /\ gate.wait_time <= 3600 * Second + gate_args.margin_seconds

C20_Witness ==
    /\ gate.engaged
    /\ gate_args = MainGateArgs
    /\ gate.local.tm_hour = 23
    /\ gate.local.tm_min = 55
    /\ gate.target = gate.first + 24 * 3600 * Second
    /\ gate.wait_time = 300 * Second + gate_args.margin_seconds
    /\ pc = "loop"

====
